---- MODULE Spec2Model ----
(***************************************************************************)
(* ClinicalTrialDataAgent (question_4_agent/01_create_agent.py): a         *)
(* question is sent to a language model, whose JSON reply names a column,  *)
(* a filter value and a match mode; execute_query applies that filter to   *)
(* the adverse-events table loaded from a CSV file and ask() wraps the     *)
(* counts, the subject list and a five-row sample into a response.         *)
(*                                                                         *)
(* Text is a sequence of one-character strings, so that upper-casing,      *)
(* equality and substring search are computed character by character.      *)
(* Column names, error types and match-mode keywords are plain strings.    *)
(***************************************************************************)
EXTENDS Integers, Sequences, FiniteSets, TLC

VARIABLES
    csv,      \* the rows of the file at ae_data_path, as text fields
    ae_df,    \* self.ae_df: the table read from that file
    schema,   \* self.schema: the column keys of AE_SCHEMA
    last,     \* the call the caller has made and not yet reported, and how it ended
    failed    \* whether the caller has caught and printed an exception so far

vars == <<csv, ae_df, schema, last, failed>>

\* rows of the sample in a response: filtered_df.head(5)
SampleSize == 5

(***************************************************************************)
(* Bounds of the model.                                                    *)
(***************************************************************************)
\* longest file built from RowPool
MaxRows == 2
\* length of the files built from RepeatPool: more rows than a sample holds
RepeatRows == 6

(***************************************************************************)
(* Python values: str, int, bool, None, and a key that is not in a dict.   *)
(***************************************************************************)
PyStr(s)  == [kind |-> "str", s |-> s]
PyInt(n)  == [kind |-> "int", n |-> n]
PyBool(b) == [kind |-> "bool", b |-> b]
None      == [kind |-> "None"]
Absent    == [kind |-> "absent"]

\* a missing value of a pandas column
NaN == [kind |-> "NaN"]

LowerCase == <<"a","b","c","d","e","f","g","h","i","j","k","l","m",
               "n","o","p","q","r","s","t","u","v","w","x","y","z">>
UpperCase == <<"A","B","C","D","E","F","G","H","I","J","K","L","M",
               "N","O","P","Q","R","S","T","U","V","W","X","Y","Z">>
DigitChars == <<"0","1","2","3","4","5","6","7","8","9">>

\* str.upper() on one character
UpperChar(c) ==
    IF \E i \in 1..Len(LowerCase) : LowerCase[i] = c
    THEN UpperCase[CHOOSE i \in 1..Len(LowerCase) : LowerCase[i] = c]
    ELSE c

\* str.upper()
upper(s) == [i \in 1..Len(s) |-> UpperChar(s[i])]

RECURSIVE NatToText(_)
NatToText(n) ==
    IF n < 10 THEN <<DigitChars[n + 1]>>
    ELSE Append(NatToText(n \div 10), DigitChars[(n % 10) + 1])

\* str(v) written the JSON way: null, true, false
str_as_json(v) ==
    CASE v.kind = "str"  -> v.s
      [] v.kind = "int"  -> IF v.n < 0 THEN <<"-">> \o NatToText(-v.n)
                            ELSE NatToText(v.n)
      [] v.kind = "bool" -> IF v.b THEN <<"t","r","u","e">>
                            ELSE <<"f","a","l","s","e">>
      [] OTHER           -> <<"n","u","l","l">>

\* str(v) of a Python value
str(v) ==
    CASE v.kind = "str"  -> v.s
      [] v.kind = "int"  -> IF v.n < 0 THEN <<"-">> \o NatToText(-v.n)
                            ELSE NatToText(v.n)
      [] v.kind = "bool" -> IF v.b THEN <<"T","r","u","e">>
                            ELSE <<"F","a","l","s","e">>
      [] OTHER           -> <<"N","o","n","e">>

\* dict.get(key, default)
Get(d, key, default) == IF d[key] = Absent THEN default ELSE d[key]

\* Series.str.contains(sub, regex=False) on one value: sub in s
Contains(s, sub) ==
    \E i \in 0..(Len(s) - Len(sub)) : SubSeq(s, i + 1, i + Len(sub)) = sub

(***************************************************************************)
(* AE_SCHEMA and the file.                                                 *)
(***************************************************************************)
AE_SCHEMA ==
    {"USUBJID", "AETERM", "AEDECOD", "AESOC", "AEBODSYS", "AESEV", "AESER",
     "AEREL", "AEOUT", "AEACN", "AESTDTC", "AEENDTC", "AESTDY", "AELLT",
     "AEHLT", "AEHLGT"}

\* the header line of the file
Header == <<"USUBJID", "AETERM", "AESTDY", "STUDYID">>

Line(subj, term, day) ==
    [USUBJID |-> subj, AETERM |-> term, AESTDY |-> day, STUDYID |-> <<"X",".","1">>]

\* records of short files: mixed case, a '.', a missing term, the text "none"
RowPool ==
    { Line(<<"S","1">>, <<"A","b">>,         <<"1">>),
      Line(<<"S","1">>, <<"a",".","b">>,     <<>>),
      Line(<<"S","2">>, <<>>,                <<"1","0">>),
      Line(<<"S","3">>, <<"n","o","n","e">>, <<"2">>) }

\* records of long files
RepeatPool ==
    { Line(<<"S","1">>, <<"A","b">>,     <<"1">>),
      Line(<<"S","2">>, <<"a","B",".">>, <<>>) }

SeqsUpTo(S, n) == UNION { [1..k -> S] : k \in 0..n }

\* the files an agent may be constructed on
Files == SeqsUpTo(RowPool, MaxRows) \cup [1..RepeatRows -> RepeatPool]

(***************************************************************************)
(* pd.read_csv: an empty field is a missing value; a column whose fields   *)
(* are all numbers or missing is numeric, any other column holds strings.  *)
(***************************************************************************)
IsNA(t) == t = <<>>

IsNumber(t) ==
    /\ t # <<>>
    /\ \A i \in 1..Len(t) : \E d \in 1..Len(DigitChars) : DigitChars[d] = t[i]

RECURSIVE TextToNat(_)
TextToNat(t) ==
    IF t = <<>> THEN 0
    ELSE 10 * TextToNat(SubSeq(t, 1, Len(t) - 1))
         + ((CHOOSE d \in 1..Len(DigitChars) : DigitChars[d] = t[Len(t)]) - 1)

infer_dtype(file, c) ==
    IF Len(file) = 0 THEN "object"
    ELSE IF \A i \in 1..Len(file) : IsNA(file[i][c]) THEN "float64"
    ELSE IF \A i \in 1..Len(file) : IsNA(file[i][c]) \/ IsNumber(file[i][c])
         THEN IF \E i \in 1..Len(file) : IsNA(file[i][c])
              THEN "float64" ELSE "int64"
    ELSE "object"

read_cell(file, c, t) ==
    IF IsNA(t) THEN NaN
    ELSE IF infer_dtype(file, c) = "object" THEN PyStr(t)
    ELSE PyInt(TextToNat(t))

read_csv(file) ==
    [ columns |-> Header,
      dtypes  |-> [c \in {Header[k] : k \in 1..Len(Header)} |-> infer_dtype(file, c)],
      rows    |-> [i \in 1..Len(file) |->
                     [c \in {Header[k] : k \in 1..Len(Header)} |->
                        read_cell(file, c, file[i][c])]] ]

(***************************************************************************)
(* How a call ends: it returns a value or raises an exception.             *)
(***************************************************************************)
Return(v) == [kind |-> "return", value |-> v]

Raise(type) == [kind |-> "raise", type |-> type]

\* no check of the column: the lookup self.ae_df[target_column] raises KeyError
RaiseKeyError(target_column, columns) ==
    [kind |-> "raise", type |-> "KeyError",
     column |-> IF target_column.kind = "str" THEN target_column.s ELSE "None",
     available |-> <<>>]

\* ValueError(f"Column '{target_column}' not found in dataset.
\*              Available columns: {list(self.ae_df.columns)}")
RaiseColumnNotFound(target_column, columns) ==
    [kind |-> "raise", type |-> "ValueError",
     column |-> IF target_column.kind = "str" THEN target_column.s ELSE "None",
     available |-> columns]

(***************************************************************************)
(* ClinicalTrialDataAgent.execute_query                                    *)
(***************************************************************************)
\* target_column in self.ae_df.columns
column_in_frame(df, target_column) ==
    /\ target_column.kind = "str"
    /\ \E k \in 1..Len(df.columns) : df.columns[k] = target_column.s

\* the .str accessor exists on columns of strings only
has_str_accessor(df, c) == df.dtypes[c] = "object"

\* exact_match comparing with the filter value as given, not upper-cased
exact_match_unfolded_filter(v, filter_value) ==
    /\ v.kind = "str"
    /\ upper(v.s) = str(filter_value)

\* Series.str.upper() == str(filter_value).upper(), for one value of the column
exact_match(v, filter_value) ==
    /\ v.kind = "str"
    /\ upper(v.s) = upper(str(filter_value))

\* contains_match with regex=True: a '.' of the pattern stands for any character
contains_match_regex(v, filter_value) ==
    /\ v.kind = "str"
    /\ LET s == upper(v.s)
           p == upper(str(filter_value))
       IN  \E i \in 0..(Len(s) - Len(p)) :
               \A k \in 1..Len(p) : p[k] = "." \/ p[k] = s[i + k]

\* Series.str.upper().str.contains(str(filter_value).upper(), na=False,
\* regex=False), for one value of the column
contains_match(v, filter_value) ==
    /\ v.kind = "str"
    /\ Contains(upper(v.s), upper(str(filter_value)))

\* the boolean mask over the rows
row_mask(df, c, filter_value, match_type) ==
    [i \in 1..Len(df.rows) |->
        IF match_type = PyStr("exact")
        THEN exact_match(df.rows[i][c], filter_value)
        ELSE contains_match(df.rows[i][c], filter_value)]

\* self.ae_df[mask]: the rows whose mask is true, in the order of the table
RECURSIVE select_rows(_, _, _)
select_rows(rows, mask, n) ==
    IF n = 0 THEN <<>>
    ELSE IF mask[n] THEN Append(select_rows(rows, mask, n - 1), rows[n])
    ELSE select_rows(rows, mask, n - 1)

\* Series.tolist() without unique(): every value, repeated ones too
keep_all(values) == values

\* Series.unique().tolist(): distinct values in order of first appearance
RECURSIVE unique(_)
unique(values) ==
    IF values = <<>> THEN <<>>
    ELSE LET init == unique(SubSeq(values, 1, Len(values) - 1))
             x    == values[Len(values)]
         IN  IF \E k \in 1..Len(init) : init[k] = x THEN init
             ELSE Append(init, x)

\* self.ae_df = self.ae_df[mask]: the filter applied to the agent's own table
frame_filtered_in_place(df, filtered_rows) == [df EXCEPT !.rows = filtered_rows]

\* self.ae_df once the filter has been applied: filtered_df is a new frame
frame_after_filter(df, filtered_rows) == df

\* what execute_query does: how it ends (ret) and self.ae_df afterwards
execute_query(df, parsed_query) ==
    LET target_column == Get(parsed_query, "target_column", None)
        filter_value  == Get(parsed_query, "filter_value", None)
        match_type    == Get(parsed_query, "match_type", PyStr("contains"))
    IN  IF ~column_in_frame(df, target_column)
        THEN [ret |-> RaiseColumnNotFound(target_column, df.columns), ae_df |-> df]
        ELSE IF ~has_str_accessor(df, target_column.s)
        THEN [ret |-> Raise("AttributeError"), ae_df |-> df]
        ELSE LET mask == row_mask(df, target_column.s, filter_value, match_type)
                 filtered_rows == select_rows(df.rows, mask, Len(df.rows))
                 unique_subjects ==
                     unique([i \in 1..Len(filtered_rows) |-> filtered_rows[i].USUBJID])
             IN  [ret |-> Return([subject_count   |-> Len(unique_subjects),
                                  unique_subjects |-> unique_subjects,
                                  filtered_df     |-> filtered_rows]),
                  ae_df |-> frame_after_filter(df, filtered_rows)]

(***************************************************************************)
(* ClinicalTrialDataAgent.parse_question and ask                           *)
(***************************************************************************)
\* DataFrame.tail(n)
tail(rows, n) == SubSeq(rows, IF Len(rows) < n THEN 1 ELSE Len(rows) - n + 1, Len(rows))

\* DataFrame.head(n)
head(rows, n) == SubSeq(rows, 1, IF Len(rows) < n THEN Len(rows) ELSE n)

\* the number of chat.completions.create calls parse_question makes
oracle_calls(reply) == 1

\* parse_question falling back to an empty dict when json.loads fails
parse_question_with_fallback(question, reply) ==
    IF reply.kind = "unreachable" THEN Raise("APIConnectionError")
    ELSE IF reply.kind = "text"
    THEN Return([target_column |-> Absent, filter_value |-> Absent,
                 match_type |-> Absent, reasoning |-> Absent])
    ELSE Return(reply.obj)

\* the model service cannot be reached, answers with text that json.loads
\* rejects, or answers with a JSON object
parse_question(question, reply) ==
    IF reply.kind = "unreachable" THEN Raise("APIConnectionError")
    ELSE IF reply.kind = "text" THEN Raise("JSONDecodeError")
    ELSE Return(reply.obj)

\* what ask does: how it ends, the calls it made, and self.ae_df afterwards
ask(df, question, reply) ==
    LET parsed == parse_question(question, reply)
    IN  IF parsed.kind = "raise"
        THEN [ret |-> parsed, oracle_calls |-> oracle_calls(reply),
              executor_runs |-> 0, ae_df |-> df]
        ELSE LET run == execute_query(df, parsed.value)
             IN  IF run.ret.kind = "raise"
                 THEN [ret |-> run.ret, oracle_calls |-> oracle_calls(reply),
                       executor_runs |-> 1, ae_df |-> run.ae_df]
                 ELSE LET filtered_df == run.ret.value.filtered_df
                      IN  [ret |-> Return(
                              [question     |-> question,
                               parsed_query |-> parsed.value,
                               results |->
                                 [unique_subject_count |-> run.ret.value.subject_count,
                                  subject_ids   |-> run.ret.value.unique_subjects,
                                  total_records |-> Len(filtered_df),
                                  sample_data   |->
                                     IF Len(filtered_df) > 0
                                     THEN head(filtered_df, SampleSize)
                                     ELSE <<>>]]),
                           oracle_calls |-> oracle_calls(reply),
                           executor_runs |-> 1, ae_df |-> run.ae_df]

(***************************************************************************)
(* Inputs: the questions asked and what the model service may answer.      *)
(***************************************************************************)
Questions == {"How many patients had severe adverse events?"}

TargetColumns ==
    {PyStr("AETERM"), PyStr("AESTDY"), PyStr("STUDYID"), PyStr("NOTACOLUMN"),
     None, Absent}

FilterValues ==
    {PyStr(<<"a","B">>), PyStr(<<".">>), PyInt(1), PyBool(TRUE), None, Absent}

MatchTypes == {PyStr("exact"), PyStr("contains"), PyStr("EXACT"), None, Absent}

Reasonings == {PyStr("r"), Absent}

\* the dicts json.loads can give back for a JSON object
ParsedQueries ==
    [target_column : TargetColumns, filter_value : FilterValues,
     match_type : MatchTypes, reasoning : Reasonings]

\* the dicts a caller passes to execute_query, which reads three of the keys
ExecutorQueries == {pq \in ParsedQueries : pq.reasoning # Absent}

Replies ==
    {[kind |-> "unreachable"], [kind |-> "text"]}
    \cup {[kind |-> "json", obj |-> pq] : pq \in ParsedQueries}

(***************************************************************************)
(* The state machine.                                                      *)
(***************************************************************************)
\* no call is in progress and no result is waiting to be reported
Idle == [op |-> "idle"]

\* ClinicalTrialDataAgent.__init__
Init ==
    /\ csv \in Files
    /\ ae_df = read_csv(csv)
    /\ schema = AE_SCHEMA
    /\ last = Idle
    /\ failed = FALSE

\* agent.ask(question), the model service answering with reply
Ask ==
    \E question \in Questions, reply \in Replies :
        LET call == ask(ae_df, question, reply)
        IN  /\ last = Idle
            /\ ae_df' = call.ae_df
            /\ last' = [op |-> "ask", question |-> question, reply |-> reply,
                        ret |-> call.ret, oracle_calls |-> call.oracle_calls,
                        executor_runs |-> call.executor_runs,
                        after_failure |-> failed]
            /\ UNCHANGED <<csv, schema, failed>>

\* agent.execute_query(parsed_query)
ExecuteQuery ==
    \E parsed_query \in ExecutorQueries :
        LET call == execute_query(ae_df, parsed_query)
        IN  /\ last = Idle
            /\ ae_df' = call.ae_df
            /\ last' = [op |-> "execute_query", parsed_query |-> parsed_query,
                        ret |-> call.ret, after_failure |-> failed]
            /\ UNCHANGED <<csv, schema, failed>>

\* the caller's loop: the response is printed, or the exception is caught
\* and printed, and the loop goes on to its next call
Report ==
    /\ last # Idle
    /\ last' = Idle
    /\ failed' = (failed \/ last.ret.kind = "raise")
    /\ UNCHANGED <<csv, ae_df, schema>>

Next == Ask \/ ExecuteQuery \/ Report

Spec == Init /\ [][Next]_vars

(***************************************************************************)
(* Properties.  A call is read off `last`: its query, how it ended, and    *)
(* the rows it reports.                                                    *)
(***************************************************************************)
\* execute_query ran in the last call, on Query
Executed ==
    \/ last.op = "execute_query"
    \/ last.op = "ask" /\ last.reply.kind = "json"

Query == IF last.op = "execute_query" THEN last.parsed_query ELSE last.reply.obj

Returned == last.ret.kind = "return"

FrameColumns == {ae_df.columns[k] : k \in 1..Len(ae_df.columns)}

TargetInFrame ==
    /\ Query.target_column.kind = "str"
    /\ Query.target_column.s \in FrameColumns

\* the number of matching rows the call reports
ResultTotal ==
    IF last.op = "execute_query" THEN Len(last.ret.value.filtered_df)
    ELSE last.ret.value.results.total_records

\* the matching rows the call hands back: all of them, or the sample
ResultRows ==
    IF last.op = "execute_query" THEN last.ret.value.filtered_df
    ELSE last.ret.value.results.sample_data

\* the subject identifiers the call reports
ResultSubjects ==
    IF last.op = "execute_query" THEN last.ret.value.unique_subjects
    ELSE last.ret.value.results.subject_ids

ResultSubjectCount ==
    IF last.op = "execute_query" THEN last.ret.value.subject_count
    ELSE last.ret.value.results.unique_subject_count

\* rows reports the rows of `expected`: all of them for execute_query, the
\* leading ones for the sample of ask
Reports(expected) ==
    /\ ResultTotal = Len(expected)
    /\ Len(ResultRows) <= Len(expected)
    /\ \A k \in 1..Len(ResultRows) : ResultRows[k] = expected[k]
    /\ last.op = "execute_query" => Len(ResultRows) = Len(expected)

\* sub occurs in s as a run of consecutive characters
IsLiteralSubstring(sub, s) ==
    \E pre \in 0..Len(s) : \E post \in 0..Len(s) :
        /\ pre + Len(sub) + post = Len(s)
        /\ \A k \in 1..Len(sub) : s[pre + k] = sub[k]

\* C1: in exact mode a row is in the result if and only if its value in the
\* target column, upper-cased, equals the filter value upper-cased, whatever
\* the letter case of either.
ExactCaseInsensitive ==
    (Executed /\ Returned /\ Query.match_type = PyStr("exact")
              /\ Query.filter_value.kind = "str")
    => LET c == Query.target_column.s
           f == Query.filter_value.s
           Test(r) == r[c] # NaN /\ upper(r[c].s) = upper(f)
       IN  Reports(SelectSeq(ae_df.rows, Test))

\* an exact query for "aB" that kept a row (stored as "Ab") and dropped another
ExactWitness ==
    /\ Executed /\ Returned
    /\ Query.match_type = PyStr("exact")
    /\ Query.filter_value = PyStr(<<"a","B">>)
    /\ ResultTotal >= 1
    /\ ResultTotal < Len(ae_df.rows)

\* C2: when the match mode is "contains", absent, null or any other value
\* than "exact", a row is in the result if and only if its value in the
\* target column, upper-cased, contains the upper-cased filter value as a
\* literal substring ('.' is an ordinary character).
ContainsLiteral ==
    (Executed /\ Returned /\ Query.match_type # PyStr("exact")
              /\ Query.filter_value.kind = "str")
    => LET c == Query.target_column.s
           f == Query.filter_value.s
           Test(r) == r[c] # NaN /\ IsLiteralSubstring(upper(f), upper(r[c].s))
       IN  Reports(SelectSeq(ae_df.rows, Test))

\* a query without a recognised match mode for "." that kept a row (stored
\* with a '.') and dropped another
ContainsWitness ==
    /\ Executed /\ Returned
    /\ Query.match_type \in {Absent, None, PyStr("EXACT")}
    /\ Query.target_column = PyStr("AETERM")
    /\ Query.filter_value = PyStr(<<".">>)
    /\ ResultTotal >= 1
    /\ ResultTotal < Len(ae_df.rows)

\* C3: when the target column exists, no row with a missing value in it is
\* in the result and the call does not fail, whatever the column holds.
NullSafe ==
    (Executed /\ TargetInFrame)
    => /\ Returned
       /\ \A k \in 1..Len(ResultRows) : ResultRows[k][Query.target_column.s] # NaN

\* C4: a target column that is not a column of the table (null and absent
\* included) ends the call with the ValueError that names the column and
\* lists the columns of the table; nothing is returned.
UnknownColumnRaises ==
    (Executed /\ ~TargetInFrame)
    => /\ last.ret.kind = "raise"
       /\ last.ret.type = "ValueError"
       /\ last.ret.column = (IF Query.target_column.kind = "str"
                             THEN Query.target_column.s ELSE "None")
       /\ last.ret.available = Header

\* a query on NOTACOLUMN that raised
UnknownColumnWitness ==
    /\ Executed
    /\ Query.target_column = PyStr("NOTACOLUMN")
    /\ last.ret.kind = "raise"

\* C5: ask answers with a response only when the target column is a key of
\* AE_SCHEMA; a target column outside AE_SCHEMA always ends in an exception.
SchemaMembership ==
    (last.op = "ask" /\ last.reply.kind = "json")
    => \/ /\ Query.target_column.kind = "str"
          /\ Query.target_column.s \in schema
       \/ last.ret.kind = "raise"

\* the exceptions of the model service call and of json.loads
InterpretationError == {"APIConnectionError", "JSONDecodeError"}

LacksField(obj) ==
    \E k \in {"target_column", "filter_value", "match_type", "reasoning"} :
        obj[k] = Absent

\* C6 as stated: ask raises an interpretation error, after exactly one call of
\* the model service and without running execute_query, when the service is
\* unreachable, answers with non-JSON text, or answers with a JSON object
\* that lacks one of the four fields.
MissingFieldRejected ==
    last.op = "ask"
    => /\ last.oracle_calls = 1
       /\ (last.reply.kind # "json" \/ LacksField(last.reply.obj))
          => /\ last.ret.kind = "raise"
             /\ last.ret.type \in InterpretationError
             /\ last.executor_runs = 0

\* C6 amended: ask raises an interpretation error, after exactly one call of
\* the model service and without running execute_query, when the service is
\* unreachable or answers with non-JSON text; a JSON object, with or without
\* the four fields, is handed to execute_query and never ends in an
\* interpretation error.
InterpretationFailures ==
    last.op = "ask"
    => /\ last.oracle_calls = 1
       /\ last.reply.kind # "json"
          => /\ last.ret.kind = "raise"
             /\ last.ret.type \in InterpretationError
             /\ last.executor_runs = 0
       /\ last.reply.kind = "json"
          => /\ last.executor_runs = 1
             /\ last.ret.kind = "raise" => last.ret.type \notin InterpretationError

\* ask on a reply that is not JSON: raised, execute_query not run
InterpretationWitness ==
    /\ last.op = "ask"
    /\ last.reply.kind = "text"
    /\ last.ret.kind = "raise"
    /\ last.executor_runs = 0

\* the rows of the table that match the query of the last call
MatchingRows ==
    IF last.op = "execute_query" THEN last.ret.value.filtered_df
    ELSE execute_query(ae_df, Query).ret.value.filtered_df

\* C7: subject_ids holds the distinct subject identifiers of the matching
\* rows in order of first occurrence, the count is its length, and the count
\* is at most the number of matching rows, equal exactly when no subject has
\* two matching rows.
SubjectsDeduplicated ==
    (Executed /\ Returned)
    => LET rows  == MatchingRows
           ids   == ResultSubjects
           First(x) == CHOOSE i \in 1..Len(rows) :
                          /\ rows[i].USUBJID = x
                          /\ \A j \in 1..(i - 1) : rows[j].USUBJID # x
       IN  /\ \A p, q \in 1..Len(ids) : p # q => ids[p] # ids[q]
           /\ {ids[p] : p \in 1..Len(ids)} = {rows[i].USUBJID : i \in 1..Len(rows)}
           /\ \A p, q \in 1..Len(ids) : p < q => First(ids[p]) < First(ids[q])
           /\ ResultSubjectCount = Len(ids)
           /\ ResultSubjectCount <= ResultTotal
           /\ (ResultSubjectCount = ResultTotal)
              <=> (\A i, j \in 1..Len(rows) :
                      i # j => rows[i].USUBJID # rows[j].USUBJID)

\* a result with repeated subjects, S2 met before S1
SubjectsWitness ==
    /\ Executed /\ Returned
    /\ ResultSubjects = << PyStr(<<"S","2">>), PyStr(<<"S","1">>) >>
    /\ ResultTotal > ResultSubjectCount

\* C8: the sample of a response is the first min(5, total_records) matching
\* rows in table order; with no matching row the sample and the subject list
\* are empty and both counts are 0.
SampleBound ==
    (last.op = "ask" /\ Returned)
    => LET rows == MatchingRows
           res  == last.ret.value.results
           n    == IF res.total_records < 5 THEN res.total_records ELSE 5
       IN  /\ res.total_records = Len(rows)
           /\ res.sample_data = SubSeq(rows, 1, n)
           /\ Len(res.sample_data) <= 5
           /\ res.total_records = 0
              => /\ res.sample_data = <<>>
                 /\ res.subject_ids = <<>>
                 /\ res.unique_subject_count = 0

\* a response over more than five matching rows, the sixth unlike the first
SampleWitness ==
    /\ last.op = "ask" /\ Returned
    /\ last.ret.value.results.total_records > 5
    /\ Len(last.ret.value.results.sample_data) = 5
    /\ MatchingRows[6] # MatchingRows[1]

\* C9: whatever calls came before, failed ones included, the table is the
\* one read from the file, the schema is AE_SCHEMA, and a call ends as it
\* ends on the freshly read table.
HistoryIndependent ==
    LET fresh == read_csv(csv)
    IN  /\ ae_df = fresh
        /\ schema = AE_SCHEMA
        /\ last.op = "execute_query"
           => last.ret = execute_query(fresh, last.parsed_query).ret
        /\ last.op = "ask"
           => last.ret = ask(fresh, last.question, last.reply).ret

\* a call made after a caught exception that kept some rows and dropped others
HistoryWitness ==
    /\ Executed /\ Returned
    /\ last.after_failure
    /\ ResultTotal >= 1
    /\ ResultTotal < Len(ae_df.rows)

\* the text of a filter value that is not a string
TextOf(v) ==
    CASE v = PyInt(1)     -> <<"1">>
      [] v = PyBool(TRUE) -> <<"T","r","u","e">>
      [] OTHER            -> <<"N","o","n","e">>

\* C10: with an existing target column, a filter value that is a number, a
\* boolean, null or absent gives what its text gives as a string filter
\* value; it does not fail on a column of strings; null and absent are
\* compared as "NONE".
FilterValueCoerced ==
    (Executed /\ TargetInFrame /\ Query.filter_value.kind # "str")
    => LET c    == Query.target_column.s
           same == [Query EXCEPT !.filter_value = PyStr(TextOf(Query.filter_value))]
           as_text == execute_query(ae_df, same).ret
           Exact(r) == r[c] # NaN /\ upper(r[c].s) = <<"N","O","N","E">>
           Has(r)   == r[c] # NaN
                       /\ IsLiteralSubstring(<<"N","O","N","E">>, upper(r[c].s))
       IN  /\ last.ret.kind = as_text.kind
           /\ last.ret.kind = "raise" => last.ret = as_text
           /\ Returned
              => /\ MatchingRows = as_text.value.filtered_df
                 /\ ResultSubjects = as_text.value.unique_subjects
                 /\ ResultTotal = Len(as_text.value.filtered_df)
           /\ (\E i \in 1..Len(csv) : ~IsNA(csv[i][c]) /\ ~IsNumber(csv[i][c]))
              => Returned
           /\ (Returned /\ Query.filter_value \in {None, Absent})
              => IF Query.match_type = PyStr("exact")
                 THEN Reports(SelectSeq(ae_df.rows, Exact))
                 ELSE Reports(SelectSeq(ae_df.rows, Has))

\* a query with a null or absent filter value that kept the row stored as "none"
CoercionWitness ==
    /\ Executed /\ Returned
    /\ Query.filter_value \in {None, Absent}
    /\ ResultTotal >= 1
    /\ ResultTotal < Len(ae_df.rows)

====
